---- MODULE Spec2Model ----
(***************************************************************************)
(* A model of jbr.js's JSONCodec (src/src/JSONCodec.js): registries that   *)
(* map class names to classes, the builder-produced base classes that      *)
(* carry a class's delegation maps, and the two traversals stringify and   *)
(* parse.                                                                  *)
(*                                                                         *)
(* Values.  A JavaScript value is a tagged tuple:                          *)
(*   <<"prim", p>>       a number, string or boolean, p its literal        *)
(*   <<"null">>          null                                              *)
(*   <<"undef">>         undefined                                         *)
(*   <<"ref", o>>        a reference to the heap object o                  *)
(*   <<"arr", elems>>    a freshly built array (a tree, no identity)       *)
(*   <<"inst", c, props>> a freshly built object whose prototype is the    *)
(*                       class c's ("Object" for a plain object), props a  *)
(*                       sequence of <<key, value>> in insertion order     *)
(* Heap objects have identity (cycle detection is by identity); the        *)
(* results of processValue, JSON.parse and parseObject are fresh trees.    *)
(***************************************************************************)
EXTENDS Integers, Sequences, FiniteSets, TLC

\* ------------------------------------------------------------- registries

\* The JSONCodec instances of the application (new JSONCodec()).
Registries == {"mainCodec", "shapeCodec", "colorCodec"}

\* An object that implements none of stringify, parse, register ({}).
InvalidCodec == "invalidCodec"

\* An object that implements stringify and parse but not register.
PartialCodec == "partialCodec"

\* The methods an object given as a codec has.
Methods(codec) ==
  IF codec \in Registries THEN {"stringify", "parse", "register"}
  ELSE IF codec = PartialCodec THEN {"stringify", "parse"}
  ELSE {}

\* Map.get's undefined, and the absent optional arguments of the traversals.
NoCodec == "noCodec"
NoClass == "noClass"
NoKey == "noKey"

\* ---------------------------------------------------------------- classes

\* The anonymous classes JSONCodec.Codec(...) returns, one per call site.
Bases == {"DrawingBase", "ColorBase"}

\* The application's classes: Drawing and Color extend a builder-produced
\* base, Shape is a plain class and Circle extends it; ShapeTwin is a second
\* class declared as `class Shape`, in another scope; CustomJSON is a plain
\* class that defines toJSON().
Declared == {"Drawing", "Color", "Shape", "Circle", "ShapeTwin", "CustomJSON"}

Classes == Bases \cup Declared \cup {"Object"}

\* The class a class extends (NoClass: it extends nothing but Object).
Super(cls) ==
  CASE cls = "Drawing" -> "DrawingBase"
    [] cls = "Color" -> "ColorBase"
    [] cls = "Circle" -> "Shape"
    [] OTHER -> NoClass

\* cls.name: a class expression in a return statement has the name "".
Name(cls) == IF cls \in Bases THEN "" ELSE IF cls = "ShapeTwin" THEN "Shape" ELSE cls

\* The class whose static fields propertyCodecs and classCodecs a lookup
\* cls.propertyCodecs finds: statics are inherited, so it is the nearest
\* builder-produced class among cls and its ancestors (NoClass: undefined).
Descriptor(cls) ==
  IF cls \in Bases THEN cls
  ELSE IF Super(cls) \in Bases THEN Super(cls)
  ELSE IF Super(cls) # NoClass /\ Super(Super(cls)) \in Bases THEN Super(Super(cls))
  ELSE NoClass

\* The keys of classMap: the names classes register under.
Tags == {Name(c) : c \in Classes}

\* The keys of propertyCodecs: the property names of the application's
\* classes.
PropertyNames == {"shape", "color", "specialColor", "name", "r", "g", "x", "radius"}

\* ----------------------------------------------------------------- state

VARIABLES
  classMap,        \* classMap[r][tag]: registry r's Map from name to class
  created,         \* the bases JSONCodec.Codec(...) has returned so far
  codecs,          \* codecs[b]: the static codecs array of base b
  propertyCodecs,  \* propertyCodecs[b][key]: base b's Map from property name to codec
  classCodecs,     \* classCodecs[b]: base b's Map from class to codec, in insertion order
  heap,            \* the application's object graph
  call,            \* the last API call and its outcome
  nsetup           \* the number of setup calls made

vars == <<classMap, created, codecs, propertyCodecs, classCodecs, heap, call, nsetup>>
config == <<classMap, created, codecs, propertyCodecs, classCodecs>>

\* ------------------------------------------------------- own properties

\* Object.entries order is insertion order; props is a sequence of pairs.
HasProp(props, k) == \E i \in 1..Len(props) : props[i][1] = k

GetProp(props, k) ==
  IF HasProp(props, k)
  THEN props[CHOOSE i \in 1..Len(props) : props[i][1] = k][2]
  ELSE <<"undef">>

\* result[k] = v: an existing key keeps its place, a new key goes last.
SetProp(props, k, v) ==
  IF HasProp(props, k)
  THEN [i \in 1..Len(props) |-> IF props[i][1] = k THEN <<k, v>> ELSE props[i]]
  ELSE Append(props, <<k, v>>)

RECURSIVE DropProp(_, _)
DropProp(props, k) ==
  IF props = <<>> THEN <<>>
  ELSE IF Head(props)[1] = k THEN DropProp(Tail(props), k)
  ELSE <<Head(props)>> \o DropProp(Tail(props), k)

\* --------------------------------------------- the native JSON text codec

\* JSON text is a sequence of tokens; white space (the space argument) is
\* not modelled.
LBrace == <<"punct", "{">>
RBrace == <<"punct", "}">>
LBracket == <<"punct", "[">>
RBracket == <<"punct", "]">>
Comma == <<"punct", ",">>
Colon == <<"punct", ":">>

RECURSIVE JSONWrite(_), JSONWriteMembers(_, _), JSONWriteElems(_, _)
RECURSIVE JSONWriteMembersWithoutNull(_, _)

\* JSON.stringify(v) of a tree: an undefined member is left out, an
\* undefined element is written as null, an instance is written as its own
\* properties.
JSONWrite(v) ==
  CASE v[1] = "prim" -> << <<"literal", v[2]>> >>
    [] v[1] = "null" -> << <<"literal", "null">> >>
    [] v[1] = "undef" -> << <<"literal", "null">> >>
    [] v[1] = "arr" -> <<LBracket>> \o JSONWriteElems(v[2], TRUE) \o <<RBracket>>
    [] v[1] = "inst" -> <<LBrace>> \o JSONWriteMembers(v[3], TRUE) \o <<RBrace>>

JSONWriteMembersWithoutNull(props, first) ==
  IF props = <<>> THEN <<>>
  ELSE IF Head(props)[2] \in {<<"undef">>, <<"null">>}
  THEN JSONWriteMembersWithoutNull(Tail(props), first)
  ELSE (IF first THEN <<>> ELSE <<Comma>>)
         \o << <<"string", Head(props)[1]>>, Colon >>
         \o JSONWrite(Head(props)[2])
         \o JSONWriteMembersWithoutNull(Tail(props), FALSE)

JSONWriteMembers(props, first) ==
  IF props = <<>> THEN <<>>
  ELSE IF Head(props)[2] = <<"undef">> THEN JSONWriteMembers(Tail(props), first)
  ELSE (IF first THEN <<>> ELSE <<Comma>>)
         \o << <<"string", Head(props)[1]>>, Colon >>
         \o JSONWrite(Head(props)[2])
         \o JSONWriteMembers(Tail(props), FALSE)

JSONWriteElems(elems, first) ==
  IF elems = <<>> THEN <<>>
  ELSE (IF first THEN <<>> ELSE <<Comma>>)
         \o JSONWrite(Head(elems))
         \o JSONWriteElems(Tail(elems), FALSE)

\* JSON.stringify(v, null, space) as a text.
JSONStringify(v) == JSONWrite(v)

RECURSIVE JSONReadValue(_, _), JSONReadMembers(_, _, _), JSONReadElems(_, _, _)

\* The value that starts at token i, and the index after it.
JSONReadValue(text, i) ==
  IF text[i] = LBrace
  THEN IF text[i + 1] = RBrace
       THEN [v |-> <<"inst", "Object", <<>>>>, next |-> i + 2]
       ELSE JSONReadMembers(text, i + 1, <<>>)
  ELSE IF text[i] = LBracket
  THEN IF text[i + 1] = RBracket
       THEN [v |-> <<"arr", <<>>>>, next |-> i + 2]
       ELSE JSONReadElems(text, i + 1, <<>>)
  ELSE IF text[i][2] = "null"
  THEN [v |-> <<"null">>, next |-> i + 1]
  ELSE [v |-> <<"prim", text[i][2]>>, next |-> i + 1]

JSONReadMembers(text, i, acc) ==
  LET r == JSONReadValue(text, i + 2)
      acc1 == SetProp(acc, text[i][2], r.v)
  IN IF text[r.next] = Comma
     THEN JSONReadMembers(text, r.next + 1, acc1)
     ELSE [v |-> <<"inst", "Object", acc1>>, next |-> r.next + 1]

JSONReadElems(text, i, acc) ==
  LET r == JSONReadValue(text, i)
      acc1 == Append(acc, r.v)
  IN IF text[r.next] = Comma
     THEN JSONReadElems(text, r.next + 1, acc1)
     ELSE [v |-> <<"arr", acc1>>, next |-> r.next + 1]

\* JSON.parse(text): a tree of plain objects, arrays and primitives.
JSONParse(text) == JSONReadValue(text, 1).v

\* ------------------------------------------------------------ the heap

Num(n) == <<"prim", n>>
Str(s) == <<"prim", s>>
Bool(b) == <<"prim", b>>
Ref(o) == <<"ref", o>>
Null == <<"null">>
Undefined == <<"undef">>

Obj(cls, props) == [cls |-> cls, props |-> props]

\* The objects the application has built.  An array is an object of class
\* "Array" whose keys are its indices.
SampleHeap ==
  [o \in {"leaf", "shared", "pair", "selfRef", "deep", "deepA", "deepB",
          "deepC", "values", "memo", "red", "green", "gradient", "badge",
          "poster", "circle",
          "drawing", "custom", "hollow", "loop", "loopBack", "palette",
          "swatches", "tints", "album", "twin"} |->
    CASE o = "leaf" -> Obj("Object", << <<"a", Num("1")>> >>)
      \* two branches that hold the same object, which is no ancestor
      [] o = "shared" -> Obj("Object", << <<"left", Ref("leaf")>>, <<"right", Ref("leaf")>> >>)
      [] o = "pair" -> Obj("Array", << <<"0", Ref("leaf")>>, <<"1", Ref("leaf")>> >>)
      \* obj.self = obj
      [] o = "selfRef" -> Obj("Object", << <<"a", Num("1")>>, <<"self", Ref("selfRef")>> >>)
      \* obj.a.b.c.circular = obj
      [] o = "deep" -> Obj("Object", << <<"a", Ref("deepA")>> >>)
      [] o = "deepA" -> Obj("Object", << <<"b", Ref("deepB")>> >>)
      [] o = "deepB" -> Obj("Object", << <<"c", Ref("deepC")>> >>)
      [] o = "deepC" -> Obj("Object", << <<"circular", Ref("deep")>> >>)
      [] o = "values" -> Obj("Object", << <<"number", Num("42")>>, <<"string", Str("hello")>>,
                                          <<"boolean", Bool("true")>>, <<"null", Null>>,
                                          <<"undefined", Undefined>> >>)
      \* new Shape(null, undefined)
      [] o = "hollow" -> Obj("Shape", << <<"x", Null>>, <<"y", Undefined>> >>)
      \* two drawings, each holding the other in its delegated property
      [] o = "loop" -> Obj("Drawing", << <<"specialColor", Ref("loopBack")>> >>)
      [] o = "loopBack" -> Obj("Drawing", << <<"specialColor", Ref("loop")>> >>)
      \* a drawing that holds arrays of colors, one under its delegated key
      [] o = "swatches" -> Obj("Array", << <<"0", Ref("red")>>, <<"1", Num("7")>> >>)
      [] o = "tints" -> Obj("Array", << <<"0", Ref("green")>> >>)
      \* an instance of the second class named Shape
      [] o = "twin" -> Obj("ShapeTwin", << <<"x", Num("10")>> >>)
      \* a drawing that holds a drawing
      [] o = "album" -> Obj("Drawing", << <<"shape", Ref("poster")>> >>)
      [] o = "palette" -> Obj("Drawing", << <<"color", Ref("swatches")>>,
                                            <<"specialColor", Ref("tints")>> >>)
      [] o = "memo" -> Obj("Object", << <<"secret", Str("sensitive")>>, <<"public", Str("ok")>> >>)
      [] o = "red" -> Obj("Color", << <<"r", Num("255")>> >>)
      [] o = "green" -> Obj("Color", << <<"g", Num("255")>> >>)
      \* a class instance whose two properties hold the same plain object
      [] o = "gradient" -> Obj("Color", << <<"from", Ref("leaf")>>, <<"to", Ref("leaf")>> >>)
      \* class instances that hold a secret, one inside the other
      [] o = "badge" -> Obj("Color", << <<"r", Num("255")>>, <<"secret", Str("sensitive")>> >>)
      [] o = "poster" -> Obj("Drawing", << <<"color", Ref("badge")>>, <<"secret", Str("top")>> >>)
      [] o = "circle" -> Obj("Circle", << <<"x", Num("10")>>, <<"radius", Num("5")>> >>)
      \* new CustomJSON("test")
      [] o = "custom" -> Obj("CustomJSON", << <<"data", Str("test")>> >>)
      [] o = "drawing" -> Obj("Drawing", << <<"shape", Ref("circle")>>, <<"color", Ref("red")>>,
                                            <<"specialColor", Ref("green")>>,
                                            <<"name", Str("My Drawing")>> >>)]

\* The objects the application passes to stringify.
Roots ==
  {"shared", "pair", "selfRef", "deep", "values", "red", "gradient", "circle", "drawing",
   "custom", "hollow", "loop", "palette", "album", "twin"}

\* What the toJSON() method of o's class returns (CustomJSON defines one):
\* { _type: this.constructor.name, serializedData: `<${this.data}>` }
toJSON(o) ==
  <<"inst", "Object",
    << <<"_type", Str(Name(heap[o].cls))>>,
       <<"serializedData", Str("<" \o GetProp(heap[o].props, "data")[2] \o ">")>> >> >>

IsArray(o) == heap[o].cls = "Array"

\* ------------------------------------------------------- Map operations

\* this.classMap.has(name), this.classMap.get(name)
ClassMapGet(c, tag) == IF tag \in Tags THEN classMap[c][tag] ELSE NoClass
ClassMapHas(c, tag) == ClassMapGet(c, tag) # NoClass

\* currentClass?.propertyCodecs?.has(key) and .get(key)
PropertyCodec(cls, key) ==
  IF cls = NoClass \/ Descriptor(cls) = NoClass \/ key \notin PropertyNames
  THEN NoCodec
  ELSE propertyCodecs[Descriptor(cls)][key]

\* The entries of cls.classCodecs (<<>> when cls has no such static field).
ClassCodecEntries(cls) ==
  IF cls = NoClass \/ Descriptor(cls) = NoClass THEN <<>> ELSE classCodecs[Descriptor(cls)]

\* A traversal that consults no class delegate.
ClassCodecIgnored(cls, constructor) == NoCodec

\* currentClass?.classCodecs?.has(constructor) and .get(constructor): by identity
ClassCodec(cls, constructor) ==
  LET es == ClassCodecEntries(cls)
  IN IF \E i \in 1..Len(es) : es[i][1] = constructor
     THEN es[CHOOSE i \in 1..Len(es) : es[i][1] = constructor][2]
     ELSE NoCodec

\* The loop of parseObject over parentClass.classCodecs: the first entry, in
\* insertion order, whose class has the tag as its name.
ClassCodecByName(cls, tag) ==
  LET es == ClassCodecEntries(cls)
      hits == {i \in 1..Len(es) : Name(es[i][1]) = tag}
  IN IF hits = {} THEN NoCodec
     ELSE es[CHOOSE i \in hits : \A j \in hits : i <= j][2]

\* -------------------------------------------------------------- outcomes

\* The depth of nested calls the engine's stack holds; a deeper call throws
\* a RangeError.
MaxStack == 10

CircularError == <<"TypeError", "Converting circular structure to JSON">>
StackError == <<"RangeError", "Maximum call stack size exceeded">>
UnknownTypeUnnamed(tag) == <<"Error", "Unknown type in codec. Did you forget to register the class?", "?">>
UnknownType(tag) == <<"Error", "Unknown type in codec. Did you forget to register the class?", tag>>
InvalidCodecError == <<"Error", "Invalid codec: must implement stringify, parse, and register">>

\* A call returns a value (with the seen set as the call leaves it) or throws.
Return(v, seen) == [ok |-> TRUE, val |-> v, seen |-> seen]
ThrowSwallowed(e) == Return(Undefined, {})
Throw(e) == [ok |-> FALSE, err |-> e]

\* ------------------------------------------------------------- stringify

NoReplacer == "noReplacer"

\* The replacer functions the application passes: the test's
\*   (key, value) => key === "secret" ? "[REDACTED]" : value
\* and one that drops the key instead.
Replacers == {"redactSecret", "dropSecret", "markSecret"}

\* markSecret is (key, value) => key === "secret" ? "*" + value : value
Replace(replacer, key, value) ==
  IF key # "secret" THEN value
  ELSE IF replacer = "redactSecret" THEN Str("[REDACTED]")
  ELSE IF replacer = "dropSecret" THEN Undefined
  ELSE IF value[1] = "prim" THEN Str("*" \o value[2])
  ELSE IF value[1] = "null" THEN Str("*null")
  ELSE Str("*[object Object]")

RECURSIVE JSONReplace(_, _, _), JSONReplaceMembers(_, _), JSONReplaceElems(_, _, _)

\* What JSON.stringify(v, replacer) writes: the replacer is called on every
\* key and value, holder first, and the value it returns is written.
JSONReplace(replacer, key, value) ==
  LET v == Replace(replacer, key, value)
  IN CASE v[1] = "arr" -> <<"arr", JSONReplaceElems(replacer, v[2], 1)>>
       [] v[1] = "inst" -> <<"inst", v[2], JSONReplaceMembers(replacer, v[3])>>
       [] OTHER -> v

JSONReplaceMembers(replacer, props) ==
  IF props = <<>> THEN <<>>
  ELSE << <<Head(props)[1], JSONReplace(replacer, Head(props)[1], Head(props)[2])>> >>
         \o JSONReplaceMembers(replacer, Tail(props))

JSONReplaceElems(replacer, elems, i) ==
  IF i > Len(elems) THEN <<>>
  ELSE <<JSONReplace(replacer, "index", elems[i])>> \o JSONReplaceElems(replacer, elems, i + 1)

\* A text codec that calls the replacer on its own results a second time.
JSONStringifyWithTwice(v, replacer) ==
  JSONWrite(JSONReplace(replacer, "", JSONReplace(replacer, "", v)))

JSONStringifyWith(v, replacer) == JSONWrite(JSONReplace(replacer, "", v))

\* A traversal that remembers no object.
SeenNothing(seen, o) == FALSE

\* seen.has(value)
SeenHas(seen, o) == o \in seen

\* The class delegate consulted before the property delegate.
DelegateForClassFirst(key, currentClass, constructor) ==
  IF ClassCodec(currentClass, constructor) # NoCodec
  THEN ClassCodec(currentClass, constructor)
  ELSE PropertyCodec(currentClass, key)

DelegateForRootToo(key, currentClass, constructor) ==
  IF currentClass = NoClass THEN ClassCodec(constructor, constructor)
  ELSE IF PropertyCodec(currentClass, key) # NoCodec
  THEN PropertyCodec(currentClass, key)
  ELSE ClassCodec(currentClass, constructor)

\* The codec a value held under key in an instance of currentClass is handed
\* to: the property delegate first, then the class delegate for the value's
\* own class; NoCodec when the current codec handles the value itself.
DelegateFor(key, currentClass, constructor) ==
  IF PropertyCodec(currentClass, key) # NoCodec
  THEN PropertyCodec(currentClass, key)
  ELSE ClassCodec(currentClass, constructor)

\* Tagging by the class the value's class extends, where it extends one.
TypeTagOfBase(c, constructor) ==
  LET base == IF Super(constructor) \in Declared THEN Super(constructor) ELSE constructor
  IN IF ClassMapHas(c, Name(base))
     THEN << <<"_type", Str(Name(base))>> >>
     ELSE <<>>

\* The start of the result object: _type when this codec has a class
\* registered under the name of the value's class.
TypeTag(c, constructor) ==
  IF ClassMapHas(c, Name(constructor))
  THEN << <<"_type", Str(Name(constructor))>> >>
  ELSE <<>>

RECURSIVE stringify(_, _, _, _), processValue(_, _, _, _, _, _)
RECURSIVE processElems(_, _, _, _, _, _), processEntries(_, _, _, _, _, _, _)

processValueDelegatingArrays(c, value, key, currentClass, seen, depth) ==
  IF value[1] # "ref" THEN Return(value, seen)
  ELSE IF depth > MaxStack THEN Throw(StackError)
  ELSE IF SeenHas(seen, value[2]) THEN Throw(CircularError)
  ELSE
    LET o == value[2]
        seen1 == seen \cup {o}
        constructor == heap[o].cls
        targetCodec == DelegateFor(key, currentClass, constructor)
    IN IF targetCodec # NoCodec
       THEN LET sub == stringify(targetCodec, value, NoReplacer, depth + 1)
            IN IF sub.ok THEN Return(JSONParse(sub.val), seen1) ELSE sub
       ELSE IF IsArray(o)
       THEN processElems(c, heap[o].props, 1, <<>>, seen1, depth)
       ELSE processEntries(c, heap[o].props, 1, constructor, TypeTag(c, constructor),
                           seen1, depth)

\* processValue(value, key, currentClass) of codec c's stringify, with the
\* call's seen set and the stack depth.
processValue(c, value, key, currentClass, seen, depth) ==
  IF value[1] # "ref" THEN Return(value, seen)
  ELSE IF depth > MaxStack THEN Throw(StackError)
  ELSE IF SeenHas(seen, value[2]) THEN Throw(CircularError)
  ELSE
    LET o == value[2]
        seen1 == seen \cup {o}
        constructor == heap[o].cls
        targetCodec == DelegateFor(key, currentClass, constructor)
    IN IF IsArray(o)
       THEN processElems(c, heap[o].props, 1, <<>>, seen1, depth)
       ELSE IF targetCodec # NoCodec
       THEN LET sub == stringify(targetCodec, value, NoReplacer, depth + 1)
            IN IF sub.ok THEN Return(JSONParse(sub.val), seen1) ELSE sub
       ELSE processEntries(c, heap[o].props, 1, constructor, TypeTag(c, constructor),
                           seen1, depth)

\* value.map((v) => processValue(v))
processElems(c, elems, i, result, seen, depth) ==
  IF i > Len(elems) THEN Return(<<"arr", result>>, seen)
  ELSE LET r == processValue(c, elems[i][2], NoKey, NoClass, seen, depth + 1)
       IN IF r.ok THEN processElems(c, elems, i + 1, Append(result, r.val), r.seen, depth)
          ELSE r

\* for (const [k, v] of Object.entries(value)) ...
processEntries(c, props, i, constructor, result, seen, depth) ==
  IF i > Len(props) THEN Return(<<"inst", "Object", result>>, seen)
  ELSE LET r == processValue(c, props[i][2], props[i][1], constructor, seen, depth + 1)
       IN IF ~r.ok THEN r
          ELSE processEntries(c, props, i + 1, constructor,
                              IF r.val = Undefined THEN result
                              ELSE SetProp(result, props[i][1], r.val),
                              r.seen, depth)

\* codec c's stringify(obj, replacer): the text, or what it throws.
stringify(c, obj, replacer, depth) ==
  LET r == processValue(c, obj, NoKey, NoClass, {}, depth)
  IN IF ~r.ok THEN r
     ELSE LET result == IF replacer # NoReplacer
                        THEN JSONParse(JSONStringifyWith(r.val, replacer))
                        ELSE r.val
          IN Return(JSONStringify(result), r.seen)

\* ----------------------------------------------------------------- parse

NoReviver == "noReviver"

\* The reviver functions the application passes: (key, value) => value.
Revivers == {"identityReviver"}

\* if (value._type): a non-empty string, an object or an array is truthy.
Falsy == {"", "0", "false"}
Truthy(v) ==
  CASE v[1] = "prim" -> v[2] \notin Falsy
    [] v[1] = "null" -> FALSE
    [] v[1] = "undef" -> FALSE
    [] OTHER -> TRUE

\* value._type as a Map key or compared with a class name: only a string
\* can match.
TagOf(v) == IF v[1] = "prim" THEN v[2] ELSE "[object Object]"

RECURSIVE parse(_, _, _), parseObject(_, _, _, _)
RECURSIVE parseElems(_, _, _, _, _), parseProps(_, _, _, _, _, _)
RECURSIVE parseObjectTagFirst(_, _, _, _)

parseObjectTagFirst(c, value, parentClass, key) ==
  IF value[1] \notin {"inst", "arr"} THEN Return(value, {})
  ELSE IF value[1] = "arr" THEN parseElems(c, value[2], 1, parentClass, <<>>)
  ELSE IF Truthy(GetProp(value[3], "_type"))
  THEN LET tag == TagOf(GetProp(value[3], "_type"))
           targetCodec == ClassCodecByName(parentClass, tag)
           cls == ClassMapGet(c, tag)
       IN IF targetCodec # NoCodec
          THEN parse(targetCodec, JSONStringify(value), NoReviver)
          ELSE IF cls = NoClass THEN Throw(UnknownType(tag))
          ELSE parseProps(c, DropProp(value[3], "_type"), 1, cls, cls, <<>>)
  ELSE IF PropertyCodec(parentClass, key) # NoCodec
  THEN parse(PropertyCodec(parentClass, key), JSONStringify(value), NoReviver)
  ELSE parseProps(c, value[3], 1, "Object", parentClass, <<>>)

\* parseObject(value, parentClass, key) of codec c's parse.
parseObject(c, value, parentClass, key) ==
  IF value[1] \notin {"inst", "arr"} THEN Return(value, {})
  ELSE IF value[1] = "arr" THEN parseElems(c, value[2], 1, parentClass, <<>>)
  ELSE IF PropertyCodec(parentClass, key) # NoCodec
  THEN parse(PropertyCodec(parentClass, key), JSONStringify(value), NoReviver)
  ELSE IF Truthy(GetProp(value[3], "_type"))
  THEN LET tag == TagOf(GetProp(value[3], "_type"))
           targetCodec == ClassCodecByName(parentClass, tag)
           cls == ClassMapGet(c, tag)
       IN IF targetCodec # NoCodec
          THEN parse(targetCodec, JSONStringify(value), NoReviver)
          ELSE IF cls = NoClass THEN Throw(UnknownType(tag))
          ELSE parseProps(c, DropProp(value[3], "_type"), 1, cls, cls, <<>>)
  ELSE parseProps(c, value[3], 1, "Object", parentClass, <<>>)

\* value.map((v) => parseObject(v, parentClass))
parseElems(c, elems, i, parentClass, result) ==
  IF i > Len(elems) THEN Return(<<"arr", result>>, {})
  ELSE LET r == parseObject(c, elems[i], parentClass, NoKey)
       IN IF r.ok THEN parseElems(c, elems, i + 1, parentClass, Append(result, r.val))
          ELSE r

\* The two loops over Object.entries: every value is resolved with context
\* as its parent class, and the result is an object of class made.
parseProps(c, props, i, made, context, result) ==
  IF i > Len(props) THEN Return(<<"inst", made, result>>, {})
  ELSE LET r == parseObject(c, props[i][2], context, props[i][1])
       IN IF r.ok
          THEN parseProps(c, props, i + 1, made, context,
                          SetProp(result, props[i][1], r.val))
          ELSE r

\* JSON.parse(text, reviver) of the text of a reconstructed tree.
JSONParseWith(text, reviver) == JSONParse(text)

\* codec c's parse(text, reviver): the value, or what it throws.
parse(c, text, reviver) ==
  LET r == parseObject(c, JSONParse(text), NoClass, NoKey)
  IN IF ~r.ok \/ reviver = NoReviver THEN r
     ELSE Return(JSONParseWith(JSONStringify(r.val), reviver), {})

\* -------------------------------------------------- the registration API

\* The registries' and the builder classes' maps as one value, so that a
\* setup call is a function from configuration to configuration.
Cfg ==
  [classMap |-> classMap, created |-> created, codecs |-> codecs,
   propertyCodecs |-> propertyCodecs, classCodecs |-> classCodecs]

\* new JSONCodec() for every registry, and no class declared yet.
EmptyCfg ==
  [classMap |-> [r \in Registries |-> [t \in Tags |-> NoClass]],
   created |-> {},
   codecs |-> [b \in Bases |-> <<>>],
   propertyCodecs |-> [b \in Bases |-> [k \in PropertyNames |-> NoCodec]],
   classCodecs |-> [b \in Bases |-> <<>>]]

\* validateCodec: the codec has stringify, parse and register.
ValidCodecAlways(codec) == TRUE
ValidCodec(codec) ==
  /\ "stringify" \in Methods(codec)
  /\ "parse" \in Methods(codec)
  /\ "register" \in Methods(codec)

\* JSONCodec.Codec(codecs) returning the class b: the static fields of the
\* new class.  codecArray is the argument as an array.
CodecClass(cfg, b, codecArray) ==
  [cfg EXCEPT !.created = @ \cup {b},
              !.codecs[b] = codecArray,
              !.propertyCodecs[b] = [k \in PropertyNames |-> NoCodec],
              !.classCodecs[b] = <<>>]

\* A delegateProp on one Map that every builder-produced class has.
delegatePropOnEveryBase(cfg, this, propName, targetCodec) ==
  [cfg EXCEPT !.propertyCodecs =
                 [b \in Bases |-> [@[b] EXCEPT ![propName] = targetCodec]]]

\* this.propertyCodecs.set(propName, targetCodec)
delegateProp(cfg, this, propName, targetCodec) ==
  [cfg EXCEPT !.propertyCodecs[Descriptor(this)][propName] = targetCodec]

\* Map.set: an existing key keeps its place, a new key goes last.
MapSet(entries, k, v) ==
  IF \E i \in 1..Len(entries) : entries[i][1] = k
  THEN [i \in 1..Len(entries) |-> IF entries[i][1] = k THEN <<k, v>> ELSE entries[i]]
  ELSE Append(entries, <<k, v>>)

\* this.classCodecs.set(cls, targetCodec)
delegatesTo(cfg, this, cls, targetCodec) ==
  [cfg EXCEPT !.classCodecs[Descriptor(this)] = MapSet(@, cls, targetCodec)]

\* A register that keeps an entry the Map already has.
registerIfAbsent(cfg, c, cls) ==
  IF cfg.classMap[c][Name(cls)] # NoClass THEN cfg
  ELSE [cfg EXCEPT !.classMap[c][Name(cls)] = cls]

\* JSONCodec.register: this.classMap.set(cls.name, cls)
register(cfg, c, cls) ==
  [cfg EXCEPT !.classMap[c][Name(cls)] = cls]

RECURSIVE RegisterEach(_, _, _)
\* codecArray.forEach((codec) => codec.register(this))
RegisterEach(cfg, codecArray, this) ==
  IF codecArray = <<>> THEN cfg
  ELSE RegisterEach(register(cfg, Head(codecArray), this), Tail(codecArray), this)

\* The static register() of a builder class, called on the class this.
builderRegister(cfg, this) ==
  RegisterEach(cfg, cfg.codecs[Descriptor(this)], this)

\* ------------------------------------------------------------- actions

\* The setup calls one run of the setup phase makes.
MaxSetup == 3

NoCall == [op |-> "none"]

SetCfg(cfg) ==
  /\ classMap' = cfg.classMap
  /\ created' = cfg.created
  /\ codecs' = cfg.codecs
  /\ propertyCodecs' = cfg.propertyCodecs
  /\ classCodecs' = cfg.classCodecs

\* The arguments the application gives JSONCodec.Codec: one codec or an
\* array of codecs.
CodecArguments ==
  {<<"one", "mainCodec">>, <<"many", <<"colorCodec">> >>,
   <<"many", <<"shapeCodec", "colorCodec">> >>,
   <<"one", InvalidCodec>>, <<"many", <<"mainCodec", InvalidCodec>> >>,
   <<"many", <<PartialCodec, "colorCodec">> >>}

\* Array.isArray(codecs) ? codecs : [codecs]
CodecArray(arg) == IF arg[1] = "many" THEN arg[2] ELSE <<arg[2]>>

\* JSONCodec.Codec(codecs), the class it returns being b.
Codec(b, arg) ==
  /\ nsetup < MaxSetup
  /\ b \notin created
  /\ LET codecArray == CodecArray(arg)
         valid == \A i \in 1..Len(codecArray) : ValidCodec(codecArray[i])
     IN /\ SetCfg(IF valid THEN CodecClass(Cfg, b, codecArray) ELSE Cfg)
        /\ call' = [op |-> "Codec", base |-> b, arg |-> arg,
                    out |-> IF valid THEN Return(b, {}) ELSE Throw(InvalidCodecError)]
  /\ nsetup' = nsetup + 1
  /\ UNCHANGED heap

\* The classes that exist: a class exists once the base it extends does.
Exists(cls) == Descriptor(cls) = NoClass \/ Descriptor(cls) \in created

\* The classes that have the builder's static methods.
BuilderClasses == {cls \in Classes : Descriptor(cls) # NoClass}

\* this.delegateProp(propName, targetCodec)
DelegateProp(this, propName, targetCodec) ==
  /\ nsetup < MaxSetup
  /\ Exists(this)
  /\ SetCfg(delegateProp(Cfg, this, propName, targetCodec))
  /\ call' = [op |-> "delegateProp", this |-> this, propName |-> propName,
              codec |-> targetCodec, out |-> Return(this, {})]
  /\ nsetup' = nsetup + 1
  /\ UNCHANGED heap

\* this.delegatesTo(cls, targetCodec)
DelegatesTo(this, cls, targetCodec) ==
  /\ nsetup < MaxSetup
  /\ Exists(this) /\ Exists(cls)
  /\ SetCfg(delegatesTo(Cfg, this, cls, targetCodec))
  /\ call' = [op |-> "delegatesTo", this |-> this, cls |-> cls,
              codec |-> targetCodec, out |-> Return(this, {})]
  /\ nsetup' = nsetup + 1
  /\ UNCHANGED heap

\* this.register(), the builder's finalization
BuilderRegister(this) ==
  /\ nsetup < MaxSetup
  /\ Exists(this)
  /\ SetCfg(builderRegister(Cfg, this))
  /\ call' = [op |-> "builderRegister", this |-> this, out |-> Return(this, {})]
  /\ nsetup' = nsetup + 1
  /\ UNCHANGED heap

\* c.register(cls); had is the entry the Map held under cls.name before.
Register(c, cls) ==
  /\ nsetup < MaxSetup
  /\ Exists(cls)
  /\ SetCfg(register(Cfg, c, cls))
  /\ call' = [op |-> "register", codec |-> c, cls |-> cls,
              had |-> ClassMapGet(c, Name(cls)), out |-> Return(c, {})]
  /\ nsetup' = nsetup + 1
  /\ UNCHANGED heap

\* The objects whose classes all exist: those the application can have built.
RECURSIVE Built(_, _)
Built(o, visited) ==
  IF o \in visited THEN TRUE
  ELSE IF ~IsArray(o) /\ ~Exists(heap[o].cls) THEN FALSE
  ELSE \A i \in 1..Len(heap[o].props) :
         IF heap[o].props[i][2][1] = "ref"
         THEN Built(heap[o].props[i][2][2], visited \cup {o})
         ELSE TRUE

\* What the application passes to stringify: any root without a replacer,
\* and the objects that hold a secret with every replacer.
StringifyArguments ==
  {<<o, NoReplacer>> : o \in Roots} \cup {<<o, rp>> : o \in {"memo", "poster"}, rp \in Replacers}

StringifyTaggingInPlace(c, obj, replacer) ==
  /\ Built(obj, {})
  /\ call' = [op |-> "stringify", codec |-> c, obj |-> obj, replacer |-> replacer,
              out |-> stringify(c, Ref(obj), replacer, 1)]
  /\ heap' = [heap EXCEPT ![obj].props = SetProp(@, "_type", Str(Name(heap[obj].cls)))]
  /\ UNCHANGED <<config, nsetup>>

\* c.stringify(obj, replacer)
Stringify(c, obj, replacer) ==
  /\ Built(obj, {})
  /\ call' = [op |-> "stringify", codec |-> c, obj |-> obj, replacer |-> replacer,
              out |-> stringify(c, Ref(obj), replacer, 1)]
  /\ UNCHANGED <<config, heap, nsetup>>

\* Texts the application has from elsewhere.
Doc(props) == <<"inst", "Object", props>>
GhostText == JSONStringify(Doc(<< <<"_type", Str("Ghost")>> >>))
DrawingText ==
  JSONStringify(Doc(<< <<"_type", Str("Drawing")>>,
                       <<"color", Doc(<< <<"_type", Str("Color")>>, <<"r", Num("255")>> >>)>>,
                       <<"specialColor", Doc(<< <<"_type", Str("Color")>>, <<"g", Num("255")>> >>)>>,
                       <<"name", Str("My Drawing")>> >>))
GhostColorText ==
  JSONStringify(Doc(<< <<"_type", Str("Drawing")>>,
                       <<"color", Doc(<< <<"_type", Str("Ghost")>> >>)>>,
                       <<"specialColor", Doc(<< <<"_type", Str("Ghost")>> >>)>> >>))
\* a drawing whose untagged member holds a tagged object under a key that
\* Drawing delegates
NestedText ==
  JSONStringify(Doc(<< <<"_type", Str("Drawing")>>,
                       <<"meta", Doc(<< <<"specialColor",
                                        Doc(<< <<"_type", Str("Color")>>,
                                               <<"g", Num("255")>> >>)>> >>)>> >>))
SampleTexts == {GhostText, DrawingText, GhostColorText, NestedText}

\* c.parse(text, reviver) of a text from elsewhere
Parse(c, text, reviver) ==
  /\ call' = [op |-> "parse", codec |-> c, text |-> text, reviver |-> reviver,
              from |-> NoCall, out |-> parse(c, text, reviver)]
  /\ UNCHANGED <<config, heap, nsetup>>

\* c.parse(text, reviver) of the text the last stringify returned
ParseBack(c, reviver) ==
  /\ call.op = "stringify" /\ call.out.ok
  /\ call' = [op |-> "parse", codec |-> c, text |-> call.out.val, reviver |-> reviver,
              from |-> call, out |-> parse(c, call.out.val, reviver)]
  /\ UNCHANGED <<config, heap, nsetup>>

\* ------------------------------------------------------ specifications

\* The setup phase from scratch: the registries are new and no class is
\* declared; every step is one call of the registration API.
InitSetup ==
  /\ classMap = EmptyCfg.classMap
  /\ created = EmptyCfg.created
  /\ codecs = EmptyCfg.codecs
  /\ propertyCodecs = EmptyCfg.propertyCodecs
  /\ classCodecs = EmptyCfg.classCodecs
  /\ heap = SampleHeap
  /\ call = NoCall
  /\ nsetup = 0

\* The classes the setup calls are made on, the properties and classes they
\* delegate, and the registries they delegate to.
SetupClasses == {"DrawingBase", "ColorBase", "Drawing"}
DelegatedNames == {"specialColor"}
DelegatedClasses == {"Color"}
DelegateTargets == {"shapeCodec", "colorCodec"}
RegisteredClasses == {"Drawing", "Color", "Circle", "Shape", "ShapeTwin"}

NextSetup ==
  \/ \E b \in Bases, arg \in CodecArguments : Codec(b, arg)
  \/ \E this \in SetupClasses, k \in DelegatedNames, t \in DelegateTargets :
       DelegateProp(this, k, t)
  \/ \E this \in SetupClasses, cls \in DelegatedClasses, t \in DelegateTargets :
       DelegatesTo(this, cls, t)
  \/ \E this \in SetupClasses : BuilderRegister(this)
  \/ \E c \in Registries, cls \in RegisteredClasses : Register(c, cls)

SpecSetup == InitSetup /\ [][NextSetup]_vars

\* The serving phase: the setup phase is over, and every step is one call
\* of stringify or parse.  The setup that ran is one of the wirings below,
\* each the result of the setup calls the application's class declarations
\* make:
\*   class Color extends JSONCodec.Codec(homes).register() {...}
\*   class Drawing extends JSONCodec.Codec(mainCodec)
\*     [.delegatesTo(Color, rc)] [.delegateProp("specialColor", rp)].register() {...}
\*   codec.register(cls), for every <<codec, cls>> of the plan
ColorHomes == {<<"colorCodec">>, <<"shapeCodec", "colorCodec">>}
ClassTargets == {NoCodec, "shapeCodec", "colorCodec"}
PropertyTargets == {NoCodec, "colorCodec", "mainCodec"}

RegisterPlans ==
  { <<>>,
    << <<"colorCodec", "Color">>, <<"mainCodec", "Drawing">> >>,
    << <<"mainCodec", "Color">>, <<"mainCodec", "Shape">>, <<"mainCodec", "Drawing">>,
       <<"mainCodec", "Circle">>, <<"mainCodec", "CustomJSON">> >>,
    << <<"shapeCodec", "Color">>, <<"colorCodec", "Color">>, <<"mainCodec", "Drawing">>,
       <<"mainCodec", "Color">> >>,
    << <<"shapeCodec", "Shape">>, <<"shapeCodec", "Circle">>, <<"colorCodec", "Color">>,
       <<"mainCodec", "Drawing">> >> }

RECURSIVE RegisterPlan(_, _)
RegisterPlan(cfg, plan) ==
  IF plan = <<>> THEN cfg
  ELSE RegisterPlan(register(cfg, Head(plan)[1], Head(plan)[2]), Tail(plan))

Wiring(homes, rc, rp, plan) ==
  LET c1 == builderRegister(CodecClass(EmptyCfg, "ColorBase", homes), "ColorBase")
      c2 == CodecClass(c1, "DrawingBase", <<"mainCodec">>)
      c3 == IF rc = NoCodec THEN c2 ELSE delegatesTo(c2, "DrawingBase", "Color", rc)
      c4 == IF rp = NoCodec THEN c3 ELSE delegateProp(c3, "DrawingBase", "specialColor", rp)
      c5 == builderRegister(c4, "DrawingBase")
  IN RegisterPlan(c5, plan)

\* A wiring in which a class delegates its own class to its own registry:
\*   class Color extends JSONCodec.Codec(colorCodec).register() {...}
\*   class Drawing extends JSONCodec.Codec(mainCodec)
\*     [.delegateProp("specialColor", rp)].register() {...}
\*   Drawing.delegatesTo(Drawing, mainCodec)
\*   codec.register(cls), for every <<codec, cls>> of the plan
SelfTargets == {NoCodec, "mainCodec"}
SelfPlans ==
  { << <<"colorCodec", "Color">>, <<"mainCodec", "Drawing">> >>,
    << <<"mainCodec", "Color">>, <<"mainCodec", "Drawing">> >> }

SelfWiring(rp, plan) ==
  LET c5 == Wiring(<<"colorCodec">>, NoCodec, rp, <<>>)
  IN RegisterPlan(delegatesTo(c5, "Drawing", "Drawing", "mainCodec"), plan)

\* The wirings, each with the number of setup calls that made it.
Wirings ==
  {[cfg |-> Wiring(homes, rc, rp, plan),
    n |-> 4 + (IF rc = NoCodec THEN 0 ELSE 1) + (IF rp = NoCodec THEN 0 ELSE 1)
            + Len(plan)] :
     homes \in ColorHomes, rc \in ClassTargets, rp \in PropertyTargets,
     plan \in RegisterPlans}
  \cup
  {[cfg |-> SelfWiring(rp, plan), n |-> 5 + (IF rp = NoCodec THEN 0 ELSE 1) + Len(plan)] :
     rp \in SelfTargets, plan \in SelfPlans}

Init ==
  \E w \in Wirings :
    /\ classMap = w.cfg.classMap
    /\ created = w.cfg.created
    /\ codecs = w.cfg.codecs
    /\ propertyCodecs = w.cfg.propertyCodecs
    /\ classCodecs = w.cfg.classCodecs
    /\ heap = SampleHeap
    /\ call = NoCall
    /\ nsetup = w.n

Next ==
  \/ \E c \in Registries, a \in StringifyArguments : Stringify(c, a[1], a[2])
  \/ \E c \in Registries, text \in SampleTexts, rv \in Revivers \cup {NoReviver} :
       Parse(c, text, rv)
  \/ \E c \in Registries : ParseBack(c, NoReviver)

Spec == Init /\ [][Next]_vars

\* ------------------------------------------------ the shape of a graph

\* The objects an object's own properties (an array's elements) refer to.
Children(o) ==
  {heap[o].props[i][2][2] :
     i \in {j \in 1..Len(heap[o].props) : heap[o].props[j][2][1] = "ref"}}

RECURSIVE ReachFrom(_, _)
ReachFrom(frontier, found) ==
  IF frontier \subseteq found THEN found
  ELSE ReachFrom(UNION {Children(o) : o \in frontier \ found}, found \cup frontier)

\* The objects of the graph rooted at o, and those below p.
Reach(o) == ReachFrom({o}, {})
Below(p) == ReachFrom(Children(p), {})

\* Some object of the graph is reachable from itself.
Cyclic(o) == \E p \in Reach(o) : p \in Below(p)

\* Only plain objects and arrays: no class of the graph has a descriptor.
PlainGraph(o) == \A p \in Reach(o) : heap[p].cls \in {"Object", "Array"}

\* The graph holds no undefined, which JSON text cannot carry.
Defined(o) ==
  \A p \in Reach(o) : \A i \in 1..Len(heap[p].props) : heap[p].props[i][2] # Undefined

\* Every class instance of the graph is of a class registered with codec c.
AllRegistered(c, o) ==
  \A p \in Reach(o) :
    heap[p].cls \in {"Object", "Array"} \/ ClassMapGet(c, Name(heap[p].cls)) = heap[p].cls

RECURSIVE Unfold(_), UnfoldProps(_, _)

\* The acyclic graph rooted at o as a tree: what an equivalent graph is
\* compared with, class by class and own property by own property.
Unfold(v) ==
  IF v[1] # "ref" THEN v
  ELSE IF IsArray(v[2])
  THEN <<"arr", [i \in 1..Len(heap[v[2]].props) |-> Unfold(heap[v[2]].props[i][2])]>>
  ELSE <<"inst", heap[v[2]].cls, UnfoldProps(heap[v[2]].props, 1)>>

UnfoldProps(props, i) ==
  IF i > Len(props) THEN <<>>
  ELSE << <<props[i][1], Unfold(props[i][2])>> >> \o UnfoldProps(props, i + 1)

\* ------------------------------------------------------------- C1

\* C1: for any acyclic graph x of registered-class instances, primitives,
\* arrays and plain objects, registry.stringify(x) returns a text and
\* registry.parse of that text returns an equivalent graph: every instance
\* is of its original class and all own properties are recursively equal.
C1_RoundTrip ==
  /\ (/\ call.op = "stringify"
      /\ call.replacer = NoReplacer
      /\ ~Cyclic(call.obj) /\ Defined(call.obj) /\ AllRegistered(call.codec, call.obj))
       => call.out.ok
  /\ (/\ call.op = "parse"
      /\ call.from.op = "stringify"
      /\ call.from.replacer = NoReplacer
      /\ call.reviver = NoReviver
      /\ call.codec = call.from.codec
      /\ ~Cyclic(call.from.obj) /\ Defined(call.from.obj)
      /\ AllRegistered(call.codec, call.from.obj))
       => (call.out.ok /\ call.out.val = Unfold(Ref(call.from.obj)))

\* ------------------------------------------------------------- C2

RECURSIVE MembersAt(_, _)
\* The members of the object whose first key is token i of a text, as
\* <<key, index of the value's first token>>, duplicates included.
MembersAt(text, i) ==
  LET next == JSONReadValue(text, i + 2).next
  IN << <<text[i][2], i + 2>> >>
       \o (IF text[next] = Comma THEN MembersAt(text, next + 1) ELSE <<>>)

\* The members of the object that starts at token i.
Members(text, i) == IF text[i + 1] = RBrace THEN <<>> ELSE MembersAt(text, i + 1)

\* The object at token i carries exactly one _type key, and its value is tag.
TaggedOnce(text, i, tag) ==
  LET ms == Members(text, i)
      at == {j \in 1..Len(ms) : ms[j][1] = "_type"}
  IN /\ Cardinality(at) = 1
     /\ \A j \in at : text[ms[j][2]] = <<"literal", tag>>

\* The index at which the value of the member k of the object at token i starts.
MemberStart(text, i, k) ==
  LET ms == Members(text, i)
  IN ms[CHOOSE j \in 1..Len(ms) : ms[j][1] = k][2]

\* An instance of a class registered with codec c, with no own _type.
RegisteredInstance(c, o) ==
  /\ heap[o].cls \in Declared
  /\ ClassMapGet(c, Name(heap[o].cls)) = heap[o].cls
  /\ ~HasProp(heap[o].props, "_type")

\* The registry that serializes the object held under the key of entry i of
\* the object o, when codec c serializes o.
Serializer(c, o, i) ==
  LET target == DelegateFor(heap[o].props[i][1], heap[o].cls,
                            heap[heap[o].props[i][2][2]].cls)
  IN IF target = NoCodec THEN c ELSE target

\* C2: the output object of an instance of a class registered with the
\* registry that serializes it carries exactly one _type key, at the top
\* level of the instance's representation, whose value is the name of the
\* instance's own most-derived class; checked for the root and for the
\* instances the root holds in its properties.
C2_TaggedWithOwnClassName ==
  (call.op = "stringify" /\ call.replacer = NoReplacer /\ call.out.ok /\ ~IsArray(call.obj))
    => LET root == call.obj
           text == call.out.val
       IN /\ RegisteredInstance(call.codec, root)
               => TaggedOnce(text, 1, Name(heap[root].cls))
          /\ \A i \in 1..Len(heap[root].props) :
               (/\ heap[root].props[i][2][1] = "ref"
                /\ RegisteredInstance(Serializer(call.codec, root, i),
                                      heap[root].props[i][2][2]))
                 => TaggedOnce(text, MemberStart(text, 1, heap[root].props[i][1]),
                               Name(heap[heap[root].props[i][2][2]].cls))

\* A registered subclass instance has been tagged with the subclass's name
\* while its base class is registered with the same registry.
C2_Witness ==
  /\ call.op = "stringify" /\ call.out.ok
  /\ call.obj = "circle"
  /\ RegisteredInstance(call.codec, "circle")
  /\ ClassMapGet(call.codec, "Shape") = "Shape"
  /\ TaggedOnce(call.out.val, 1, "Circle")

\* ------------------------------------------------------------- C3

\* What registry r alone writes for the object p, as a document.
Through(r, p) == JSONParse(stringify(r, Ref(p), NoReplacer, 1).val)

\* The one route precedence allows for entry i of the instance o serialized
\* by codec c: the property delegate, else the class delegate, else c.
Route(c, o, i) ==
  LET pc == PropertyCodec(heap[o].cls, heap[o].props[i][1])
      cc == ClassCodec(heap[o].cls, heap[heap[o].props[i][2][2]].cls)
  IN IF pc # NoCodec THEN pc ELSE IF cc # NoCodec THEN cc ELSE c

\* C3: in stringify, an object-valued property of a class instance is
\* written by one route only: the parent's property delegate for the key if
\* there is one, else the parent's class delegate for the value's class if
\* there is one, else the current (home) registry.  (An array is no such
\* property: no route applies to it, see C24.)
C3_Precedence ==
  (/\ call.op = "stringify" /\ call.replacer = NoReplacer /\ call.out.ok
   /\ heap[call.obj].cls \in Declared)
    => \A i \in 1..Len(heap[call.obj].props) :
         (heap[call.obj].props[i][2][1] = "ref" /\ ~IsArray(heap[call.obj].props[i][2][2]))
           => GetProp(JSONParse(call.out.val)[3], heap[call.obj].props[i][1])
                = Through(Route(call.codec, call.obj, i), heap[call.obj].props[i][2][2])

\* A drawing has been written whose specialColor has a property delegate and
\* a class delegate that write it differently, and whose color has a class
\* delegate that writes it differently from the home registry.
C3_Witness ==
  /\ call.op = "stringify" /\ call.out.ok
  /\ call.obj = "drawing"
  /\ PropertyCodec("Drawing", "specialColor") # NoCodec
  /\ ClassCodec("Drawing", "Color") # NoCodec
  /\ Through(PropertyCodec("Drawing", "specialColor"), "green")
       # Through(ClassCodec("Drawing", "Color"), "green")
  /\ GetProp(JSONParse(call.out.val)[3], "specialColor")
       = Through(PropertyCodec("Drawing", "specialColor"), "green")
  /\ PropertyCodec("Drawing", "color") = NoCodec
  /\ Through(ClassCodec("Drawing", "Color"), "red") # Through(call.codec, "red")
  /\ GetProp(JSONParse(call.out.val)[3], "color")
       = Through(ClassCodec("Drawing", "Color"), "red")

\* ------------------------------------------------------------- C4

\* The home codecs of a class: the codecs array of its descriptor.
HomeCodecs(cls) == IF Descriptor(cls) = NoClass THEN <<>> ELSE codecs[Descriptor(cls)]

\* Entry i of the instance o holds an instance of a class with two or more
\* home codecs, and neither delegateProp nor delegatesTo of o's class covers it.
AmbiguousEntry(o, i) ==
  /\ heap[o].props[i][2][1] = "ref"
  /\ Descriptor(heap[heap[o].props[i][2][2]].cls) \in created
  /\ Len(HomeCodecs(heap[heap[o].props[i][2][2]].cls)) >= 2
  /\ PropertyCodec(heap[o].cls, heap[o].props[i][1]) = NoCodec
  /\ ClassCodec(heap[o].cls, heap[heap[o].props[i][2][2]].cls) = NoCodec

\* The class finalized on the descriptor of this has such a property.
Ambiguous(this) ==
  \E o \in DOMAIN heap :
    /\ Descriptor(heap[o].cls) = Descriptor(this)
    /\ \E i \in 1..Len(heap[o].props) : AmbiguousEntry(o, i)

\* C4: the builder's register() on a class that has an own property whose
\* value's class has two or more home codecs, with no delegateProp or
\* delegatesTo override covering it, fails with a configuration error and
\* does not complete the registration.
C4_AmbiguityRejected ==
  (call.op = "builderRegister" /\ Ambiguous(call.this)) => ~call.out.ok

\* ------------------------------------------------------------- C7

\* Registry r has no class under the tag.
Lacks(r, tag) == tag \notin Tags \/ classMap[r][tag] = NoClass

\* A tagged object: value._type is truthy.
Tagged(v) == v[1] = "inst" /\ Truthy(GetProp(v[3], "_type"))

\* An object whose own properties are all primitives.
Flat(v) == v[1] = "inst" /\ \A i \in 1..Len(v[3]) : v[3][i][2][1] \in {"prim", "null"}

\* The registry that resolves the object v held under key in an object of
\* class parentClass parsed by codec c: the property delegate, else the class
\* delegate whose class has v's tag as its name, else c.
Resolver(c, parentClass, key, v) ==
  IF PropertyCodec(parentClass, key) # NoCodec THEN PropertyCodec(parentClass, key)
  ELSE IF Tagged(v) /\ ClassCodecByName(parentClass, TagOf(GetProp(v[3], "_type"))) # NoCodec
  THEN ClassCodecByName(parentClass, TagOf(GetProp(v[3], "_type")))
  ELSE c

\* The call threw the unknown-type error and its message names the tag.
ThrewUnknown(tag) ==
  /\ ~call.out.ok
  /\ Len(call.out.err) = 3
  /\ call.out.err[1] = "Error"
  /\ call.out.err[3] = tag

\* The entries of the root document whose tagged object no registration
\* resolves, the root being an object of class cls.
Unresolved(c, cls, props) ==
  {i \in 1..Len(props) :
     /\ Tagged(props[i][2])
     /\ Lacks(Resolver(c, cls, props[i][1], props[i][2]), TagOf(GetProp(props[i][2][3], "_type")))}

\* C7: parse throws the unknown-type error naming the tag when a tagged
\* object's tag is neither matched by a delegate of the parent class nor
\* present in the resolving registry's tag map: for the root of the text,
\* and for the first such object among the (flat) objects the root holds,
\* also when the resolving registry is a delegation target.
C7_UnknownTypeNamed ==
  (call.op = "parse" /\ JSONParse(call.text)[1] = "inst")
    => LET doc == JSONParse(call.text)
           tag == TagOf(GetProp(doc[3], "_type"))
           cls == IF Tagged(doc) THEN classMap[call.codec][tag] ELSE NoClass
           props == IF Tagged(doc) THEN DropProp(doc[3], "_type") ELSE doc[3]
           bad == Unresolved(call.codec, cls, props)
       IN IF Tagged(doc) /\ Lacks(call.codec, tag) THEN ThrewUnknown(tag)
          ELSE (/\ bad # {}
                /\ \A i \in 1..Len(props) : props[i][2][1] = "inst" => Flat(props[i][2]))
                 => \E i \in bad :
                      /\ \A j \in bad : i <= j
                      /\ ThrewUnknown(TagOf(GetProp(props[i][2][3], "_type")))

\* '{"_type":"Ghost"}' has been refused by a registry without Ghost.
C7_Witness ==
  /\ call.op = "parse"
  /\ call.text = GhostText
  /\ Lacks(call.codec, "Ghost")
  /\ ThrewUnknown("Ghost")

\* ------------------------------------------------------------- C9

\* The class parent has declared delegatesTo(cls, r).
Declares(parent, cls, r) ==
  /\ Descriptor(parent) # NoClass
  /\ \E j \in 1..Len(classCodecs[Descriptor(parent)]) :
       classCodecs[Descriptor(parent)][j] = <<cls, r>>

\* Entry i of the instance o, of a class registered with codec c, holds an
\* instance of a class that o's class delegates to r and that is registered
\* with r, as are the classes of the instances it holds itself, under a key
\* without a property delegate.
ClassDelegated(c, o, i, r) ==
  /\ RegisteredInstance(c, o)
  /\ heap[o].props[i][2][1] = "ref"
  /\ Declares(heap[o].cls, heap[heap[o].props[i][2][2]].cls, r)
  /\ PropertyCodec(heap[o].cls, heap[o].props[i][1]) = NoCodec
  /\ RegisteredInstance(r, heap[o].props[i][2][2])
  /\ AllRegistered(r, heap[o].props[i][2][2])

\* C9: when the parent class declares delegatesTo(C, R) and a parent
\* instance holds an instance of C directly in a property (one without a
\* property delegate), the parent registry's stringify writes the
\* property's sub-document through R, tagged by R, and the parent registry's
\* parse of that text hands the sub-document to R: the property comes back
\* as an instance of C, also when C is not registered with the parent
\* registry.
C9_ClassDelegation ==
  /\ (call.op = "stringify" /\ call.replacer = NoReplacer /\ call.out.ok)
       => \A i \in 1..Len(heap[call.obj].props), r \in Registries :
            ClassDelegated(call.codec, call.obj, i, r)
              => LET sub == GetProp(JSONParse(call.out.val)[3], heap[call.obj].props[i][1])
                     p == heap[call.obj].props[i][2][2]
                 IN /\ sub = Through(r, p)
                    /\ GetProp(sub[3], "_type") = Str(Name(heap[p].cls))
  /\ (/\ call.op = "parse" /\ call.reviver = NoReviver
      /\ call.from.op = "stringify" /\ call.from.replacer = NoReplacer
      /\ call.codec = call.from.codec)
       => \A i \in 1..Len(heap[call.from.obj].props), r \in Registries :
            ClassDelegated(call.codec, call.from.obj, i, r)
              => /\ call.out.ok
                 /\ GetProp(call.out.val[3], heap[call.from.obj].props[i][1])
                      = Unfold(heap[call.from.obj].props[i][2])

\* A drawing written and parsed by a registry without Color has its color
\* back as a Color, through the registry Drawing delegates Color to.
C9_Witness ==
  /\ call.op = "parse" /\ call.out.ok
  /\ call.from.op = "stringify" /\ call.from.obj = "drawing"
  /\ call.codec = call.from.codec
  /\ Lacks(call.codec, "Color")
  /\ \E r \in Registries \ {call.codec} : ClassDelegated(call.codec, "drawing", 2, r)
  /\ GetProp(JSONParse(call.text)[3], "color")
       = <<"inst", "Object", << <<"_type", Str("Color")>>, <<"r", Num("255")>> >> >>
  /\ GetProp(call.out.val[3], "color") = <<"inst", "Color", << <<"r", Num("255")>> >> >>

\* ------------------------------------------------------------- C8

\* The class of the instance o is registered with codec c and with another
\* registry.
TwiceRegistered(c, o) ==
  /\ RegisteredInstance(c, o)
  /\ \E r \in Registries \ {c} : RegisteredInstance(r, o)
  /\ ~Cyclic(o) /\ Defined(o)

\* What registry r returns for its own text of the object o.
RoundTrip(r, o) ==
  LET text == stringify(r, Ref(o), NoReplacer, 1)
  IN IF text.ok THEN parse(r, text.val, NoReviver) ELSE text

\* C8: every instance x of a class registered with two registries
\* round-trips identically through either one used directly: both results
\* are instances of the class, equal to each other and to x.
C8_EitherRegistry ==
  /\ (call.op = "stringify" /\ call.replacer = NoReplacer
      /\ TwiceRegistered(call.codec, call.obj))
       => call.out.ok
  /\ (/\ call.op = "parse" /\ call.reviver = NoReviver
      /\ call.from.op = "stringify" /\ call.from.replacer = NoReplacer
      /\ call.codec = call.from.codec
      /\ TwiceRegistered(call.codec, call.from.obj))
       => /\ call.out.ok
          /\ call.out.val = Unfold(Ref(call.from.obj))
          /\ \A r \in Registries :
               RegisteredInstance(r, call.from.obj) => RoundTrip(r, call.from.obj) = call.out

\* ------------------------------------------------------------- C10

\* Codec c is a home codec of the builder-declared class cls.
HomeOf(c, cls) ==
  /\ cls \in Declared
  /\ \E j \in 1..Len(HomeCodecs(cls)) : HomeCodecs(cls)[j] = c

\* C10: a class finalized with the builder's register(), as in
\* class Point extends JSONCodec.Codec(codec).register(), is with no further
\* register call written by a home registry's stringify with _type equal to
\* its name and reconstructed by that registry's parse as an instance of it.
C10_BuilderRegisterTagsClass ==
  /\ (call.op = "stringify" /\ call.replacer = NoReplacer /\ call.out.ok
      /\ HomeOf(call.codec, heap[call.obj].cls))
       => TaggedOnce(call.out.val, 1, Name(heap[call.obj].cls))
  /\ (/\ call.op = "parse" /\ call.reviver = NoReviver
      /\ call.from.op = "stringify" /\ call.from.replacer = NoReplacer
      /\ call.codec = call.from.codec
      /\ HomeOf(call.codec, heap[call.from.obj].cls))
       => (call.out.ok /\ call.out.val[1] = "inst"
           /\ call.out.val[2] = heap[call.from.obj].cls)

\* ------------------------------------------------------------- C5

\* C5: stringify of a graph of plain objects and arrays in which some object
\* is reachable from itself (directly or several levels deep) throws the
\* TypeError "Converting circular structure to JSON" and returns no text.
C5_PlainCycleThrows ==
  (call.op = "stringify" /\ PlainGraph(call.obj) /\ Cyclic(call.obj))
    => call.out = Throw(CircularError)

\* The cycle several levels deep (obj.a.b.c.circular = obj) has been refused.
C5_Witness ==
  /\ call.op = "stringify"
  /\ call.obj = "deep"
  /\ "deep" \in Below("deepC")
  /\ call.out = Throw(CircularError)

\* ------------------------------------------------------------- C6

\* C6: stringify does not throw when the same object is reachable through
\* two branches of an acyclic graph of plain objects and arrays
\* ({left: s, right: s}, [s, s]): only an object that reappears among its own
\* ancestors is an error.
C6_SharedObjectAccepted ==
  (call.op = "stringify" /\ PlainGraph(call.obj) /\ ~Cyclic(call.obj))
    => call.out.ok

\* ------------------------------------------------------------- C11

\* Every codec of the argument has stringify, parse and register.
AllImplemented(arg) ==
  \A i \in 1..Len(CodecArray(arg)) :
    {"stringify", "parse", "register"} \subseteq Methods(CodecArray(arg)[i])

\* C11: JSONCodec.Codec(codecs) throws "Invalid codec: must implement
\* stringify, parse, and register" when any given codec, alone or at any
\* position of a list, lacks one of the three methods, and that call changes
\* no registry's tag map and no descriptor; otherwise it returns a class.
C11_InvalidCodecRejected ==
  [][call'.op = "Codec"
       => IF AllImplemented(call'.arg) THEN call'.out.ok
          ELSE /\ call'.out = Throw(<<"Error", "Invalid codec: must implement stringify, parse, and register">>)
               /\ config' = config]_vars

\* A list whose second codec is invalid has been refused after another class
\* had been produced.
C11_Witness ==
  /\ call.op = "Codec"
  /\ call.arg = <<"many", <<"mainCodec", InvalidCodec>> >>
  /\ ~call.out.ok
  /\ created # {}
  /\ call.base \notin created

\* ------------------------------------------------------------- C12

\* C12: registry.register(cls) maps cls's tag (its name) to cls, replacing
\* without error an earlier entry under that tag, changes no other tag's
\* entry, no other registry and no descriptor, and returns the registry; so
\* after any sequence of register calls each tag maps to the class most
\* recently registered under it.
C12_RegisterOverwrites ==
  [][call'.op = "register"
       => /\ call'.out = Return(call'.codec, {})
          /\ classMap'[call'.codec][Name(call'.cls)] = call'.cls
          /\ \A r \in Registries, t \in Tags :
               (r # call'.codec \/ t # Name(call'.cls)) => classMap'[r][t] = classMap[r][t]
          /\ UNCHANGED <<created, codecs, propertyCodecs, classCodecs>>]_vars

\* A class has been registered under a tag that another class held.
C12_Witness ==
  /\ call.op = "register"
  /\ call.had \notin {NoClass, call.cls}
  /\ classMap[call.codec][Name(call.cls)] = call.cls

\* ------------------------------------------------------------- C13

\* C13: parse applies a reviver as a final pass over the reconstructed tree
\* and returns that tree: with a reviver that returns every value unchanged,
\* parse(text, reviver) equals parse(text), the classes of the reconstructed
\* instances included.
C13_IdentityReviverKeepsClasses ==
  (call.op = "parse" /\ call.reviver = "identityReviver")
    => call.out = parse(call.codec, call.text, NoReviver)

\* ------------------------------------------------------------- C14

RECURSIVE Replaced(_, _), ReplacedMembers(_, _)

\* A document after one pass of a replacer: every member named secret, at
\* any depth, is replaced or dropped as the replacer says, and nothing else
\* is changed.
Replaced(replacer, v) ==
  IF v[1] = "arr" THEN <<"arr", [i \in 1..Len(v[2]) |-> Replaced(replacer, v[2][i])]>>
  ELSE IF v[1] = "inst" THEN <<"inst", "Object", ReplacedMembers(replacer, v[3])>>
  ELSE v

ReplacedMembers(replacer, props) ==
  IF props = <<>> THEN <<>>
  ELSE LET k == Head(props)[1]
           v == Head(props)[2]
       IN (IF k # "secret" THEN << <<k, Replaced(replacer, v)>> >>
           ELSE IF replacer = "dropSecret" THEN <<>>
           ELSE IF replacer = "redactSecret" THEN << <<k, Str("[REDACTED]")>> >>
           ELSE IF v[1] = "prim" THEN << <<k, Str("*" \o v[2])>> >>
           ELSE << <<k, Str("*[object Object]")>> >>)
            \o ReplacedMembers(replacer, Tail(props))

\* C14: stringify applies a replacer exactly once, after all tagging and
\* delegation, over the whole plain-data tree, sub-documents written by
\* delegate registries included: the output is the output without replacer
\* with every value the replacer replaces replaced once and every value it
\* drops absent.
C14_ReplacerOnce ==
  (call.op = "stringify" /\ call.replacer # NoReplacer)
    => LET plain == stringify(call.codec, Ref(call.obj), NoReplacer, 1)
       IN IF plain.ok
          THEN /\ call.out.ok
               /\ JSONParse(call.out.val) = Replaced(call.replacer, JSONParse(plain.val))
          ELSE call.out = plain

\* A poster whose color was written by a delegate registry has had its own
\* secret and the secret of the delegate's sub-document marked once each.
C14_Witness ==
  /\ call.op = "stringify" /\ call.out.ok
  /\ call.obj = "poster" /\ call.replacer = "markSecret"
  /\ ClassCodec("Drawing", "Color") \notin {NoCodec, call.codec}
  /\ GetProp(JSONParse(call.out.val)[3], "secret") = Str("*top")
  /\ GetProp(GetProp(JSONParse(call.out.val)[3], "color")[3], "secret") = Str("*sensitive")

\* ------------------------------------------------------------- C15

\* The class parse gives the root of a text it resolves with codec c: the
\* parent class of the objects the root holds.
RootClass(c, doc) ==
  IF Tagged(doc) THEN ClassMapGet(c, TagOf(GetProp(doc[3], "_type"))) ELSE NoClass

\* C15: in a round trip through one registry, the registry that emitted an
\* object's _type during stringify is the registry that resolves that _type
\* during parse of the output; checked for the tagged objects the root holds
\* in its properties.
C15_SameRegistryBothWays ==
  (/\ call.op = "parse" /\ call.reviver = NoReviver /\ call.out.ok
   /\ call.from.op = "stringify" /\ call.from.replacer = NoReplacer
   /\ call.codec = call.from.codec
   /\ ~IsArray(call.from.obj))
    => LET doc == JSONParse(call.text)
           o == call.from.obj
       IN \A i \in 1..Len(heap[o].props) :
            (heap[o].props[i][2][1] = "ref" /\ Tagged(GetProp(doc[3], heap[o].props[i][1])))
              => Resolver(call.codec, RootClass(call.codec, doc), heap[o].props[i][1],
                          GetProp(doc[3], heap[o].props[i][1]))
                   = Serializer(call.codec, o, i)

\* ------------------------------------------------------------------ C16
\* C16: a registered class that defines toJSON() is written by stringify as
\* the value its toJSON() returns: the output is the text of that value, with
\* its custom keys in place of the instance's own properties, and parse of
\* that output returns an instance of the class that has the custom keys and
\* not the own properties.
C16_ToJSONRespected ==
  /\ (/\ call.op = "stringify" /\ call.replacer = NoReplacer
      /\ heap[call.obj].cls = "CustomJSON"
      /\ classMap[call.codec]["CustomJSON"] = "CustomJSON")
       => /\ call.out.ok
          /\ call.out.val = JSONStringify(toJSON(call.obj))
  /\ (/\ call.op = "parse" /\ call.reviver = NoReviver
      /\ call.from.op = "stringify" /\ call.from.replacer = NoReplacer
      /\ call.codec = call.from.codec
      /\ heap[call.from.obj].cls = "CustomJSON"
      /\ classMap[call.codec]["CustomJSON"] = "CustomJSON")
       => /\ call.out.ok
          /\ call.out.val[1] = "inst" /\ call.out.val[2] = "CustomJSON"
          /\ HasProp(call.out.val[3], "serializedData")
          /\ ~HasProp(call.out.val[3], "data")

C18_FailureLeavesNoTrace ==
  [][/\ (call'.op = "stringify" /\ PlainGraph(call'.obj) /\ Cyclic(call'.obj))
          => ~call'.out.ok
     /\ (call'.op = "parse" /\ call'.text = GhostText) => ~call'.out.ok
     /\ (call'.op \in {"stringify", "parse"} /\ ~call'.out.ok)
          => /\ DOMAIN call'.out = {"ok", "err"}
             /\ config' = config
     /\ (call.op \in {"stringify", "parse"} /\ ~call.out.ok /\ call'.op = "stringify")
          => call'.out = stringify(call'.codec, Ref(call'.obj), call'.replacer, 1)
     /\ (call.op \in {"stringify", "parse"} /\ ~call.out.ok /\ call'.op = "parse")
          => call'.out = parse(call'.codec, call'.text, call'.reviver)]_vars

C18_Witness ==
  /\ call.op = "parse"
  /\ call.out = [ok |-> FALSE, err |-> UnknownType("Ghost")]
  /\ classMap[call.codec]["Color"] = "Color"

\* ------------------------------------------------------------------ C19
\* Entry i of the root document, which the parsing registry resolves to a
\* class, holds an object under a key for which that class has the property
\* delegate t.
PropertyDelegated(doc, i, t) ==
  /\ Tagged(doc)
  /\ TagOf(GetProp(doc[3], "_type")) \in Tags
  /\ classMap[call.codec][TagOf(GetProp(doc[3], "_type"))] # NoClass
  /\ doc[3][i][2][1] = "inst"
  /\ doc[3][i][1] \in PropertyNames
  /\ LET d == Descriptor(classMap[call.codec][TagOf(GetProp(doc[3], "_type"))])
     IN d # NoClass /\ propertyCodecs[d][doc[3][i][1]] = t

\* C19: when parse resolves an object to a class that has a property
\* delegate for a key, the object under that key is resolved by the property
\* delegate's registry alone, whatever its tag: the property of the result
\* is what the delegate's parse of the sub-document returns, and the call
\* fails when the delegate's parse fails, also when the parsing registry has
\* the tag registered or the class has a class delegate for it.
C19_PropertyDelegateFirst ==
  (call.op = "parse" /\ call.reviver = NoReviver /\ JSONParse(call.text)[1] = "inst")
    => LET doc == JSONParse(call.text)
       IN \A i \in 1..Len(doc[3]), t \in Registries :
            PropertyDelegated(doc, i, t)
              => LET sub == parse(t, JSONStringify(doc[3][i][2]), NoReviver)
                 IN IF sub.ok
                    THEN call.out.ok => GetProp(call.out.val[3], doc[3][i][1]) = sub.val
                    ELSE ~call.out.ok

\* The drawing's specialColor is tagged Color; the parsing registry has
\* Color registered, the property delegate's registry has not, and the
\* call has failed.
C19_Witness ==
  /\ call.op = "parse" /\ call.reviver = NoReviver
  /\ call.text = DrawingText
  /\ PropertyDelegated(JSONParse(call.text), 3, "colorCodec")
  /\ classCodecs["DrawingBase"] = <<>>
  /\ classMap[call.codec]["Color"] = "Color"
  /\ classMap["colorCodec"]["Color"] = NoClass
  /\ call.out = [ok |-> FALSE, err |-> UnknownType("Color")]

\* ------------------------------------------------------------------ C20
\* Entry i of the instance o holds an instance of a class that exists and
\* has exactly one home codec.
SingleHomeEntry(o, i) ==
  /\ heap[o].props[i][2][1] = "ref"
  /\ Descriptor(heap[heap[o].props[i][2][2]].cls) \in created
  /\ Len(HomeCodecs(heap[heap[o].props[i][2][2]].cls)) = 1

\* C20: when the builder's register() on a class has completed, every own
\* property of the class's instances that holds an instance of a class with
\* exactly one home codec has a property delegate recorded: the explicit
\* one if delegateProp named the property, else that home codec.
C20_SingleHomeAdopted ==
  (call.op = "builderRegister" /\ call.out.ok)
    => \A o \in DOMAIN heap :
         Descriptor(heap[o].cls) = Descriptor(call.this)
           => \A i \in 1..Len(heap[o].props) :
                SingleHomeEntry(o, i)
                  => propertyCodecs[Descriptor(call.this)][heap[o].props[i][1]]
                       \in {HomeCodecs(heap[heap[o].props[i][2][2]].cls)[1]}
                             \cup {t \in Registries :
                                     heap[o].props[i][1] \in DelegatedNames}

\* ------------------------------------------------------------------ C21
\* C21: stringify of an input in which some object is reachable from itself
\* throws the TypeError "Converting circular structure to JSON", also when
\* the cycle passes through a value that a property delegate or a class
\* delegate hands to another registry; it returns no text and does not
\* exhaust the call stack.
C21_DelegatedCycleThrowsCircular ==
  (call.op = "stringify" /\ Cyclic(call.obj))
    => call.out = [ok |-> FALSE, err |-> CircularError]

\* ------------------------------------------------------------------ C22
\* The members of the root document besides its tag are primitives or
\* untagged objects under keys for which the class d has no property
\* delegate.
UntaggedMembers(doc, d) ==
  \A i \in 1..Len(doc[3]) :
    \/ doc[3][i][2][1] \in {"prim", "null"}
    \/ /\ doc[3][i][2][1] = "inst" /\ ~Tagged(doc[3][i][2])
       /\ IF d = NoClass \/ doc[3][i][1] \notin PropertyNames THEN TRUE
          ELSE propertyCodecs[d][doc[3][i][1]] = NoCodec

\* C22: when parse resolves the root of a text to a class and a member of
\* the root is an untagged object, the member is a plain object whose own
\* members are resolved with no class context: the result holds under that
\* key what parsing the member on its own, outside the class instance,
\* gives, and the call fails only if that fails; the property delegates and
\* class delegates of the root's class do not apply inside the member.
C22_UntaggedHasNoContext ==
  (call.op = "parse" /\ call.reviver = NoReviver /\ JSONParse(call.text)[1] = "inst")
    => LET doc == JSONParse(call.text)
           tag == TagOf(GetProp(doc[3], "_type"))
           cls == IF Tagged(doc) /\ tag \in Tags THEN classMap[call.codec][tag] ELSE NoClass
           members == {i \in 1..Len(doc[3]) : doc[3][i][2][1] = "inst"}
       IN (cls # NoClass /\ members # {} /\ UntaggedMembers(doc, Descriptor(cls)))
            => IF \A i \in members : parseObject(call.codec, doc[3][i][2], NoClass, NoKey).ok
               THEN /\ call.out.ok
                    /\ \A i \in members :
                         GetProp(call.out.val[3], doc[3][i][1])
                           = parseObject(call.codec, doc[3][i][2], NoClass, NoKey).val
               ELSE ~call.out.ok

\* ------------------------------------------------------------------ C23
\* C23: when stringify is given an instance of a class that the registry
\* has not registered, the instance is written without a tag and each
\* object it holds is written as the registry writes that object on its
\* own, with no class context: the property delegates and class delegates
\* declared on the unregistered class are not used.
C23_UnregisteredHasNoContext ==
  (/\ call.op = "stringify" /\ call.replacer = NoReplacer /\ call.out.ok
   /\ heap[call.obj].cls \notin {"Object", "Array"}
   /\ classMap[call.codec][Name(heap[call.obj].cls)] = NoClass)
    => LET doc == JSONParse(call.out.val)
           own == heap[call.obj].props
       IN /\ ~Tagged(doc)
          /\ \A i \in 1..Len(own) :
               own[i][2][1] = "ref"
                 => /\ stringify(call.codec, own[i][2], NoReplacer, 1).ok
                    /\ GetProp(doc[3], own[i][1]) = Through(call.codec, own[i][2][2])

\* ------------------------------------------------------------------ C24
\* What codec c writes for the elements of an array, each on its own with
\* no key and no parent class.
RECURSIVE ElementsAlone(_, _, _)
ElementsAlone(c, elems, i) ==
  IF i > Len(elems) THEN <<>>
  ELSE <<IF elems[i][2][1] = "ref" THEN Through(c, elems[i][2][2]) ELSE elems[i][2]>>
         \o ElementsAlone(c, elems, i + 1)

\* C24: an array held in a property of an instance that stringify writes is
\* never handed to a delegate, and each of its elements is written as the
\* traversing registry writes it on its own: neither the property delegate
\* of the array's key nor a class delegate of the enclosing class applies to
\* the elements, which are tagged only if the traversing registry has their
\* class registered.
C24_ArrayElementsAlone ==
  (/\ call.op = "stringify" /\ call.replacer = NoReplacer /\ call.out.ok
   /\ ~IsArray(call.obj))
    => LET doc == JSONParse(call.out.val)
           own == heap[call.obj].props
       IN \A i \in 1..Len(own) :
            (own[i][2][1] = "ref" /\ IsArray(own[i][2][2]))
              => GetProp(doc[3], own[i][1])
                   = <<"arr", ElementsAlone(call.codec, heap[own[i][2][2]].props, 1)>>

\* A drawing's array under the delegated key specialColor has been written
\* by a registry without Color, the property delegate having Color: the
\* element is untagged.
C24_Witness ==
  /\ call.op = "stringify" /\ call.replacer = NoReplacer /\ call.out.ok
  /\ call.obj = "palette"
  /\ propertyCodecs["DrawingBase"]["specialColor"] \in Registries \ {call.codec}
  /\ classMap[propertyCodecs["DrawingBase"]["specialColor"]]["Color"] = "Color"
  /\ classMap[call.codec]["Color"] = NoClass
  /\ GetProp(JSONParse(call.out.val)[3], "specialColor")
       = <<"arr", << <<"inst", "Object", << <<"g", Num("255")>> >> >> >> >>

\* ------------------------------------------------------------------ C25
\* C25: once the builder's register() has returned for a class, the
\* property-delegate map and the class-delegate map of the class's
\* descriptor do not change: no call that follows, delegateProp and
\* delegatesTo included, alters them.
C25_DescriptorFrozen ==
  [][(call.op = "builderRegister" /\ call.out.ok)
       => /\ propertyCodecs'[Descriptor(call.this)] = propertyCodecs[Descriptor(call.this)]
          /\ classCodecs'[Descriptor(call.this)] = classCodecs[Descriptor(call.this)]]_vars

\* ------------------------------------------------------------------ C26
\* C26: the cycle-detection set belongs to one stringify call.  A stringify
\* call that follows another stringify call on the same registry, whether
\* that one returned or threw the circular error, succeeds when its own
\* argument is acyclic, and gives the same text as the call before when the
\* argument is the same.
C26_SeenSetPerCall ==
  [][(/\ call.op = "stringify" /\ call'.op = "stringify"
      /\ call'.codec = call.codec
      /\ call'.replacer = NoReplacer
      /\ ~Cyclic(call'.obj))
       => /\ call'.out.ok
          /\ (call.obj = call'.obj /\ call.replacer = NoReplacer)
               => call'.out.val = call.out.val]_vars

\* ------------------------------------------------------------------ C27
\* C27: a stringify or parse call, the calls it delegates included, changes
\* no registry's tag map and no class's property-delegate or class-delegate
\* map, and leaves the object graph as it was.
C27_TraversalsArePure ==
  [][call'.op \in {"stringify", "parse"}
       => /\ classMap' = classMap
          /\ propertyCodecs' = propertyCodecs
          /\ classCodecs' = classCodecs
          /\ codecs' = codecs
          /\ heap' = heap]_vars

\* A drawing has been written through its delegates.
C27_Witness ==
  /\ call.op = "stringify" /\ call.obj = "drawing" /\ call.out.ok
  /\ propertyCodecs["DrawingBase"]["specialColor"] \in Registries \ {call.codec}
  /\ classCodecs["DrawingBase"] # <<>>
  /\ heap = SampleHeap

\* ------------------------------------------------------------------ C28
\* C28: stringify of an acyclic object graph and parse of a text end
\* without exhausting the call stack, whatever the property and class
\* delegates are, also when a class delegates its own class or a registry
\* delegates to itself: stringify returns a text or throws the TypeError,
\* parse returns a value or throws the unknown-type Error.
C28_DelegationTerminates ==
  /\ (call.op = "stringify" /\ ~Cyclic(call.obj))
       => IF call.out.ok THEN TRUE ELSE call.out.err = CircularError
  /\ call.op = "parse"
       => IF call.out.ok THEN TRUE ELSE call.out.err[1] = "Error"

\* A drawing that holds a drawing has been written by the registry that
\* Drawing delegates Drawing to, and has a delegated property as well.
C28_Witness ==
  /\ call.op = "parse" /\ call.out.ok /\ call.codec = "mainCodec"
  /\ call.from.op = "stringify" /\ call.from.obj = "album" /\ call.from.codec = "mainCodec"
  /\ classCodecs["DrawingBase"] = << <<"Drawing", "mainCodec">> >>
  /\ propertyCodecs["DrawingBase"]["specialColor"] = "mainCodec"
  /\ call.out.val[2] = "Drawing"
  /\ GetProp(call.out.val[3], "shape")[2] = "Drawing"

\* ------------------------------------------------------------------ C29
\* C29: stringify tags an instance with T only if the instance's own class
\* is the class the registry has registered under T, and parse of the
\* output by that registry gives an instance of the instance's own class:
\* a class that shares its name with a registered class is not taken for
\* it, and an instance of a class that is not registered is not tagged.
C29_TagMeansOwnClass ==
  /\ (/\ call.op = "stringify" /\ call.replacer = NoReplacer /\ call.out.ok
      /\ ~IsArray(call.obj)
      /\ Tagged(JSONParse(call.out.val)))
       => classMap[call.codec][TagOf(GetProp(JSONParse(call.out.val)[3], "_type"))]
            = heap[call.obj].cls
  /\ (/\ call.op = "parse" /\ call.reviver = NoReviver /\ call.out.ok
      /\ call.from.op = "stringify" /\ call.from.replacer = NoReplacer
      /\ call.codec = call.from.codec
      /\ ~IsArray(call.from.obj)
      /\ Tagged(JSONParse(call.text)))
       => call.out.val[2] = heap[call.from.obj].cls

\* ------------------------------------------------------------------ C30
\* C30: every JSONCodec.Codec(...) call gives a class with its own, empty
\* delegate maps.  A delegateProp or delegatesTo on a class changes the maps
\* of the builder-produced base that class derives from, which are the maps
\* every class derived from that base sees, and leaves the maps of every
\* other builder-produced class as they were.
C30_OwnMapsPerCodecCall ==
  [][/\ (call'.op = "Codec" /\ call'.out.ok)
          => /\ propertyCodecs'[call'.base] = [k \in PropertyNames |-> NoCodec]
             /\ classCodecs'[call'.base] = <<>>
             /\ \A b \in Bases \ {call'.base} :
                  /\ propertyCodecs'[b] = propertyCodecs[b]
                  /\ classCodecs'[b] = classCodecs[b]
     /\ call'.op = "delegateProp"
          => /\ \A cls \in Classes :
                  Descriptor(cls) = Descriptor(call'.this)
                    => propertyCodecs'[Descriptor(cls)][call'.propName] = call'.codec
             /\ \A b \in Bases \ {Descriptor(call'.this)} :
                  propertyCodecs'[b] = propertyCodecs[b]
             /\ classCodecs' = classCodecs
     /\ call'.op = "delegatesTo"
          => /\ \A cls \in Classes :
                  Descriptor(cls) = Descriptor(call'.this)
                    => \E j \in 1..Len(classCodecs'[Descriptor(cls)]) :
                         classCodecs'[Descriptor(cls)][j] = <<call'.cls, call'.codec>>
             /\ \A b \in Bases \ {Descriptor(call'.this)} :
                  classCodecs'[b] = classCodecs[b]
             /\ propertyCodecs' = propertyCodecs]_vars

\* Drawing.delegateProp(...) has been called with both bases created: the
\* base Drawing derives from has the delegate, the other base has none.
C30_Witness ==
  /\ call.op = "delegateProp" /\ call.this = "Drawing"
  /\ created = Bases
  /\ propertyCodecs["DrawingBase"][call.propName] = call.codec
  /\ propertyCodecs["ColorBase"][call.propName] = NoCodec

====
